---------------------------- MODULE Spec2Model ----------------------------
(***************************************************************************)
(* Model of get_mod_items.py: the ModItemsFetcher crawler.                 *)
(*                                                                         *)
(* main() submits one process_mod task per mod name to an outer thread     *)
(* pool; every process_mod builds its own inner pool for the item-detail   *)
(* and image tasks, appends the assembled mod record to the in-memory      *)
(* store and rewrites the JSON file.                                       *)
(*                                                                         *)
(* Strings that the code inspects character by character (file names,      *)
(* image titles, URLs) are sequences of one-character strings.  Python's   *)
(* None is the empty sequence <<>> and a value v is <<v>> wherever a       *)
(* function returns "a record or None".                                    *)
(***************************************************************************)
EXTENDS Integers, Sequences, FiniteSets, TLC

VARIABLES
    mods,             \* main: the worklist (args.mods / mods_data.json)
    workers,          \* main: args.workers, size of the outer pool
    download_images,  \* ModItemsFetcher.download_images
    hash_seed,        \* the interpreter's per-process string hash seed
    wiki,             \* what the remote API holds (search hits, image lists)
    file0,            \* mod_items_data.json as it was at startup
    file,             \* mod_items_data.json on disk
    data,             \* ModItemsFetcher.data, the in-memory store
    processed_count,  \* ModItemsFetcher.processed_count
    failed_count,     \* ModItemsFetcher.failed_count
    pc,               \* per mod task: position inside process_mod
    reg,              \* per mod task: the counter value loaded by "+= 1"
    result,           \* per mod task: outcome of the process_mod future
    item_futures,     \* per mod task: future_to_item
    image_futures,    \* per mod task: image_futures of the current item
    queue,            \* per mod task: work queue of the inner executor
    cur,              \* per mod task: index of the item future being handled
    item_data,        \* per mod task: item_data of the current item
    mod_data,         \* per mod task: mod_data
    requests,         \* per mod task: HTTP requests issued so far, by kind
    collected,        \* main: futures already taken from as_completed
    main_pc,          \* main: "waiting" or "summary"
    filename,         \* sanitize_filename: its argument
    safe_name         \* sanitize_filename: its return value (<<v>>), <<>> before the call

vars == << mods, workers, download_images, hash_seed, wiki, file0, file, data,
           processed_count, failed_count, pc, reg, result, item_futures,
           image_futures, queue, cur, item_data, mod_data, requests,
           collected, main_pc, filename, safe_name >>

-----------------------------------------------------------------------------
(* Bounds of the model *)

\* longest worklist handed to main
MaxMods == 2
\* most search hits the API returns for one mod (the code asks for at most 50)
MaxItems == 1
\* most image titles one page references
MaxImages == 1
\* size of the inner pool; the source sets MAX_WORKERS = 10, scaled down here
\* so that the submitted item and image tasks can outnumber the workers
MAX_WORKERS == 1
\* most search hits and most images per page in the runs of a single mod
SoloItems == 2
SoloImages == 1
\* longest image list in the runs that vary the image titles
MaxTitles == 2
\* longest repeated pattern in the sanitize_filename inputs
MaxPatLen == 2
\* how far the sanitize_filename inputs go past the truncation length
MaxOver == 2

\* filename[:255] in sanitize_filename
FilenameLimit == 255

-----------------------------------------------------------------------------
(* Strings *)

Min(a, b) == IF a < b THEN a ELSE b

\* str.replace(old, new) for one-character old and new
replace(s, old, new) == [i \in 1..Len(s) |-> IF s[i] = old THEN new ELSE s[i]]

\* s[:n]
Prefix(s, n) == SubSeq(s, 1, Min(Len(s), n))

\* str.lower(), on the letters the model's titles use
LowerChar(c) ==
    CASE c = "P" -> "p" [] c = "N" -> "n" [] c = "G" -> "g"
      [] c = "J" -> "j" [] c = "I" -> "i" [] c = "F" -> "f"
      [] OTHER -> c

lower(s) == [i \in 1..Len(s) |-> LowerChar(s[i])]

\* sub in s
Contains(s, sub) ==
    \E k \in 0..(Len(s) - Len(sub)) : SubSeq(s, k + 1, k + Len(sub)) = sub

\* s.endswith(sub)
EndsWith(s, sub) ==
    /\ Len(sub) <= Len(s)
    /\ SubSeq(s, Len(s) - Len(sub) + 1, Len(s)) = sub

\* the decimal digits of a natural number below 100
Digits(n) ==
    LET d == <<"0", "1", "2", "3", "4", "5", "6", "7", "8", "9">>
    IN  IF n < 10 THEN <<d[n + 1]>> ELSE <<d[(n \div 10) + 1], d[(n % 10) + 1]>>

-----------------------------------------------------------------------------
(* sanitize_filename *)

invalid_chars == <<"<", ">", ":", "\"", "/", "\\", "|", "?", "*">>

RECURSIVE ReplaceInvalid(_, _)
\* the loop "for char in invalid_chars: filename = filename.replace(char, '_')"
ReplaceInvalid(name, k) ==
    IF k > Len(invalid_chars)
    THEN name
    ELSE ReplaceInvalid(replace(name, invalid_chars[k], "_"), k + 1)

\* mutant of sanitize_filename: the cut is one character late
sanitize_filename_late(name) == Prefix(ReplaceInvalid(name, 1), FilenameLimit + 1)

sanitize_filename(name) == Prefix(ReplaceInvalid(name, 1), FilenameLimit)

-----------------------------------------------------------------------------
(* download_image *)

images_dir == <<"m", "o", "d", "_", "i", "t", "e", "m", "s", "_", "d", "a", "t", "a">>

\* scheme and host of every URL the API hands out; the model's URLs carry no
\* query and no fragment, so urlparse(url).path is what follows the host
UrlHost == <<"h", ":", "/", "/", "w">>

UrlPath(url) == SubSeq(url, Len(UrlHost) + 1, Len(url))

\* str.rfind(c) + 1: the last position of c in s, 0 when there is none
LastIndex(s, c) ==
    LET at == {i \in 1..Len(s) : s[i] = c}
    IN  IF at = {} THEN 0 ELSE CHOOSE i \in at : \A j \in at : j <= i

\* os.path.splitext(path)[1]: from the last dot of the last component, unless
\* only dots precede it in that component
SplitExt(path) ==
    LET sep == LastIndex(path, "/")
        dot == LastIndex(path, ".")
    IN  IF dot > sep /\ (\E k \in (sep + 1)..(dot - 1) : path[k] # ".")
        THEN SubSeq(path, dot, Len(path))
        ELSE <<>>

\* str(hash(url)): an integer that depends on the process's hash seed
HashStr(url) ==
    IF hash_seed = 0 THEN Digits(Len(url)) ELSE <<"-">> \o Digits(Len(url))

\* os.path.join(self.images_dir, safe_name)
PathJoin(dir, name) == dir \o <<"/">> \o name

\* the file path download_image returns; "" (<<>>) when the request or the
\* write raised
download_image(url, item_name, ok) ==
    LET ext0      == SplitExt(UrlPath(url))
        extension == IF ext0 = <<>> THEN <<".", "p", "n", "g">> ELSE ext0
        name      == sanitize_filename(item_name \o <<"_">> \o HashStr(url) \o extension)
    IN  IF ok THEN PathJoin(images_dir, name) ELSE <<>>

-----------------------------------------------------------------------------
(* process_image and the image filter of process_mod *)

\* the URL get_image_url returns for a title when the lookup succeeds
UrlOf(image_title) == UrlHost \o <<"/">> \o image_title

\* mutant of process_image: the image is downloaded whatever the flag says
process_image_always(image_title, item_details, resolved, dl_ok) ==
    IF ~resolved
    THEN <<>>
    ELSE << [ name      |-> item_details.title,
              url       |-> UrlOf(image_title),
              localPath |-> download_image(UrlOf(image_title), item_details.title, dl_ok) ] >>

\* process_image: None (<<>>) when get_image_url gave no URL, else the image
\* record; resolved and dl_ok are the outcomes of the two requests
process_image(image_title, item_details, resolved, dl_ok) ==
    IF ~resolved
    THEN <<>>
    ELSE << [ name      |-> item_details.title,
              url       |-> UrlOf(image_title),
              localPath |-> IF download_images
                            THEN download_image(UrlOf(image_title), item_details.title, dl_ok)
                            ELSE <<>> ] >>

RasterExts == { <<".", "p", "n", "g">>, <<".", "j", "p", "g">>, <<".", "g", "i", "f">> }

\* any(ext in image_title.lower() for ext in ['.png', '.jpg', '.gif'])
IsRasterImage(image_title) ==
    \E ext \in RasterExts : Contains(lower(image_title), ext)

-----------------------------------------------------------------------------
(* The store *)

\* mutant of existing_mod: the look-up never finds the mod
existing_mod_never(store, mod_name) == <<>>

\* next((mod for mod in self.data['mods'] if mod['mod_name'] == mod_name), None)
existing_mod(store, mod_name) ==
    LET hits == {i \in 1..Len(store.mods) : store.mods[i].mod_name = mod_name}
    IN  IF hits = {} THEN <<>>
        ELSE << store.mods[CHOOSE i \in hits : \A j \in hits : i <= j] >>

NoRequests == [search |-> 0, detail |-> 0, image |-> 0, download |-> 0]

Tasks == DOMAIN pc

\* tasks that hold a worker of the outer pool
Active == {t \in Tasks : pc[t] \notin {"queued", "done"}}

\* mutant of Running: a worker is not released when its task is done
Running_leak(t) ==
    Cardinality({i \in 1..Len(item_futures[t]) : item_futures[t][i].state # "queued"})
    + Cardinality({j \in 1..Len(image_futures[t]) : image_futures[t][j].state # "queued"})

\* inner pool of task t: futures a worker is running
Running(t) ==
    Cardinality({i \in 1..Len(item_futures[t]) : item_futures[t][i].state = "running"})
    + Cardinality({j \in 1..Len(image_futures[t]) : image_futures[t][j].state = "running"})

-----------------------------------------------------------------------------
(* process_mod, one action per step of the mod task's thread *)

TaskVars == << pc, reg, result, item_futures, image_futures, queue, cur,
               item_data, mod_data, requests >>
InputVars == << mods, workers, download_images, hash_seed, wiki, file0 >>
SanVars == << filename, safe_name >>

\* A worker of the outer pool takes the task (the pool's queue is first in,
\* first out) and runs process_mod up to its first request: the look-up of
\* the mod in the store, which raises when the loaded JSON is not a store.
Start(t) ==
    /\ main_pc = "waiting"
    /\ pc[t] = "queued"
    /\ \A u \in Tasks : u < t => pc[u] # "queued"
    /\ Cardinality(Active) < workers
    /\ IF data.shape # "store"
       THEN /\ pc' = [pc EXCEPT ![t] = "except"]
            /\ reg' = [reg EXCEPT ![t] = failed_count]
            /\ UNCHANGED << result, requests >>
       ELSE IF existing_mod(data, mods[t]) # <<>>
       THEN /\ pc' = [pc EXCEPT ![t] = "done"]
            /\ result' = [result EXCEPT ![t] = "True"]
            /\ UNCHANGED << reg, requests >>
       ELSE /\ pc' = [pc EXCEPT ![t] = "search"]
            /\ requests' = [requests EXCEPT ![t].search = @ + 1]
            /\ UNCHANGED << reg, result >>
    /\ UNCHANGED << item_futures, image_futures, queue, cur, item_data, mod_data >>
    /\ UNCHANGED << InputVars, SanVars, file, data, processed_count, failed_count,
                    collected, main_pc >>

\* get_mod_items: the hits of the search, [] when the request or its parsing
\* raised; answered says whether the API answered
get_mod_items(mod_name, answered) ==
    IF answered THEN wiki.search[mod_name] ELSE [wellformed |-> TRUE, titles |-> <<>>]

\* The search returns.  No hits: "failed_count += 1" loads the counter.  Hits
\* without a 'title' raise in the submit loop.  Otherwise every item is
\* submitted to a fresh inner executor.
SearchReturn(t) ==
    /\ pc[t] = "search"
    /\ \E answered \in BOOLEAN :
         LET items == get_mod_items(mods[t], answered) IN
         IF items.titles = <<>> /\ items.wellformed
         THEN /\ pc' = [pc EXCEPT ![t] = "noitems"]
              /\ reg' = [reg EXCEPT ![t] = failed_count]
              /\ UNCHANGED << item_futures, queue, mod_data >>
         ELSE IF ~items.wellformed
         THEN /\ pc' = [pc EXCEPT ![t] = "except"]
              /\ reg' = [reg EXCEPT ![t] = failed_count]
              /\ UNCHANGED << item_futures, queue, mod_data >>
         ELSE /\ pc' = [pc EXCEPT ![t] = "items_wait"]
              /\ mod_data' = [mod_data EXCEPT ![t] = [mod_name |-> mods[t], items |-> <<>>]]
              /\ item_futures' = [item_futures EXCEPT ![t] =
                     [i \in 1..Len(items.titles) |->
                        [title |-> items.titles[i], state |-> "queued",
                         result |-> <<>>, taken |-> FALSE]]]
              /\ queue' = [queue EXCEPT ![t] =
                     [i \in 1..Len(items.titles) |-> <<"item", i>>]]
              /\ UNCHANGED reg
    /\ UNCHANGED << result, image_futures, cur, item_data, requests >>
    /\ UNCHANGED << InputVars, SanVars, file, data, processed_count, failed_count,
                    collected, main_pc >>

\* "if not items": the store of "failed_count += 1", then return False
NoItemsReturn(t) ==
    /\ pc[t] = "noitems"
    /\ failed_count' = reg[t] + 1
    /\ pc' = [pc EXCEPT ![t] = "done"]
    /\ result' = [result EXCEPT ![t] = "False"]
    /\ UNCHANGED << reg, item_futures, image_futures, queue, cur, item_data,
                    mod_data, requests >>
    /\ UNCHANGED << InputVars, SanVars, file, data, processed_count, collected, main_pc >>

\* mutant of ExceptReturn: no handler, the exception leaves process_mod
ExceptReturn_raise(t) ==
    /\ pc[t] = "except"
    /\ pc' = [pc EXCEPT ![t] = "done"]
    /\ result' = [result EXCEPT ![t] = "raised"]
    /\ UNCHANGED << reg, item_futures, image_futures, queue, cur, item_data,
                    mod_data, requests >>
    /\ UNCHANGED << InputVars, SanVars, file, data, processed_count, failed_count,
                    collected, main_pc >>

\* "except Exception": the store of "failed_count += 1", then return False
ExceptReturn(t) ==
    /\ pc[t] = "except"
    /\ failed_count' = reg[t] + 1
    /\ pc' = [pc EXCEPT ![t] = "done"]
    /\ result' = [result EXCEPT ![t] = "False"]
    /\ UNCHANGED << reg, item_futures, image_futures, queue, cur, item_data,
                    mod_data, requests >>
    /\ UNCHANGED << InputVars, SanVars, file, data, processed_count, collected, main_pc >>

-----------------------------------------------------------------------------
(* The inner executor of one process_mod: its worker threads *)

\* A free worker takes the oldest queued task and issues its first request.
WorkerStart(t) ==
    /\ queue[t] # <<>>
    /\ Running(t) < MAX_WORKERS
    /\ LET task == Head(queue[t]) IN
         /\ queue' = [queue EXCEPT ![t] = Tail(@)]
         /\ IF task[1] = "item"
            THEN /\ item_futures' = [item_futures EXCEPT ![t][task[2]].state = "running"]
                 /\ requests' = [requests EXCEPT ![t].detail = @ + 1]
                 /\ UNCHANGED image_futures
            ELSE /\ image_futures' = [image_futures EXCEPT ![t][task[2]].state = "running"]
                 /\ requests' = [requests EXCEPT ![t].image = @ + 1]
                 /\ UNCHANGED item_futures
    /\ UNCHANGED << pc, reg, result, cur, item_data, mod_data >>
    /\ UNCHANGED << InputVars, SanVars, file, data, processed_count, failed_count,
                    collected, main_pc >>

\* get_item_details: None (<<>>) when the request raised or no page came
\* back, else the page's title and the titles of its images (the extract is
\* fetched too; process_mod never reads it)
get_item_details(page_title, answered) ==
    IF answered
    THEN << [title |-> page_title, images |-> wiki.images[page_title]] >>
    ELSE <<>>

\* The worker running get_item_details finishes.
ItemDetailsReturn(t, i) ==
    /\ i \in 1..Len(item_futures[t])
    /\ item_futures[t][i].state = "running"
    /\ \E answered \in BOOLEAN :
         item_futures' = [item_futures EXCEPT ![t][i] =
             [@ EXCEPT !.state = "done",
                       !.result = get_item_details(item_futures[t][i].title,
                                                   answered)]]
    /\ UNCHANGED << pc, reg, result, image_futures, queue, cur, item_data,
                    mod_data, requests >>
    /\ UNCHANGED << InputVars, SanVars, file, data, processed_count, failed_count,
                    collected, main_pc >>

\* The worker running process_image finishes: get_image_url answered or not,
\* and, when images are downloaded, download_image succeeded or not.
ProcessImageReturn(t, j) ==
    /\ j \in 1..Len(image_futures[t])
    /\ image_futures[t][j].state = "running"
    /\ \E resolved, dl_ok \in BOOLEAN :
         /\ image_futures' = [image_futures EXCEPT ![t][j] =
               [@ EXCEPT !.state = "done",
                         !.download = IF resolved /\ download_images
                                      THEN (IF dl_ok THEN "ok" ELSE "failed")
                                      ELSE "none",
                         !.result = process_image(image_futures[t][j].title,
                                       item_futures[t][cur[t]].result[1],
                                       resolved, dl_ok)]]
         /\ requests' = [requests EXCEPT ![t].download =
               IF resolved /\ download_images THEN @ + 1 ELSE @]
    /\ UNCHANGED << pc, reg, result, item_futures, queue, cur, item_data, mod_data >>
    /\ UNCHANGED << InputVars, SanVars, file, data, processed_count, failed_count,
                    collected, main_pc >>

-----------------------------------------------------------------------------
(* process_mod: the loops over the completed futures *)

\* the image titles of item_details that process_mod submits to process_image
FilterImages(images) == SelectSeq(images, IsRasterImage)

\* as_completed(future_to_item) yields a finished item future.  Without
\* details "failed_count += 1" loads the counter; with details the qualifying
\* images are submitted to the same executor.
ItemConsume(t, i) ==
    /\ pc[t] = "items_wait"
    /\ i \in 1..Len(item_futures[t])
    /\ item_futures[t][i].state = "done"
    /\ ~item_futures[t][i].taken
    /\ item_futures' = [item_futures EXCEPT ![t][i].taken = TRUE]
    /\ IF item_futures[t][i].result = <<>>
       THEN /\ pc' = [pc EXCEPT ![t] = "count_failed"]
            /\ reg' = [reg EXCEPT ![t] = failed_count]
            /\ UNCHANGED << image_futures, queue, cur, item_data >>
       ELSE LET titles == FilterImages(item_futures[t][i].result[1].images) IN
            /\ pc' = [pc EXCEPT ![t] = "images_wait"]
            /\ cur' = [cur EXCEPT ![t] = i]
            /\ item_data' = [item_data EXCEPT ![t] = [images |-> <<>>]]
            /\ image_futures' = [image_futures EXCEPT ![t] =
                   [j \in 1..Len(titles) |->
                      [title |-> titles[j], state |-> "queued", result |-> <<>>,
                       download |-> "none", taken |-> FALSE]]]
            /\ queue' = [queue EXCEPT ![t] =
                   @ \o [j \in 1..Len(titles) |-> <<"image", j>>]]
            /\ UNCHANGED reg
    /\ UNCHANGED << result, mod_data, requests >>
    /\ UNCHANGED << InputVars, SanVars, file, data, processed_count, failed_count,
                    collected, main_pc >>

\* the store of "failed_count += 1" for an item without details
ItemFailedCount(t) ==
    /\ pc[t] = "count_failed"
    /\ failed_count' = reg[t] + 1
    /\ pc' = [pc EXCEPT ![t] = "items_wait"]
    /\ UNCHANGED << reg, result, item_futures, image_futures, queue, cur,
                    item_data, mod_data, requests >>
    /\ UNCHANGED << InputVars, SanVars, file, data, processed_count, collected, main_pc >>

\* as_completed(image_futures) yields a finished image future; its record,
\* if it has one, joins item_data['images'].
ImageConsume(t, j) ==
    /\ pc[t] = "images_wait"
    /\ j \in 1..Len(image_futures[t])
    /\ image_futures[t][j].state = "done"
    /\ ~image_futures[t][j].taken
    /\ image_futures' = [image_futures EXCEPT ![t][j].taken = TRUE]
    /\ item_data' = [item_data EXCEPT ![t].images = @ \o image_futures[t][j].result]
    /\ UNCHANGED << pc, reg, result, item_futures, queue, cur, mod_data, requests >>
    /\ UNCHANGED << InputVars, SanVars, file, data, processed_count, failed_count,
                    collected, main_pc >>

\* mutant of KeepItem: every item with details is kept
KeepItem_always(item) == TRUE

\* "if item_data['images']": whether the finished item joins mod_data['items']
KeepItem(item) == item.images # <<>>

\* Every image future of the item was taken: the item joins mod_data when it
\* has an image, and "processed_count += 1" loads the counter.
ItemFinish(t) ==
    /\ pc[t] = "images_wait"
    /\ \A j \in 1..Len(image_futures[t]) : image_futures[t][j].taken
    /\ IF KeepItem(item_data[t])
       THEN /\ mod_data' = [mod_data EXCEPT ![t].items = Append(@, item_data[t])]
            /\ pc' = [pc EXCEPT ![t] = "count_processed"]
            /\ reg' = [reg EXCEPT ![t] = processed_count]
       ELSE /\ pc' = [pc EXCEPT ![t] = "items_wait"]
            /\ UNCHANGED << mod_data, reg >>
    /\ image_futures' = [image_futures EXCEPT ![t] = <<>>]
    /\ UNCHANGED << result, item_futures, queue, cur, item_data, requests >>
    /\ UNCHANGED << InputVars, SanVars, file, data, processed_count, failed_count,
                    collected, main_pc >>

\* the store of "processed_count += 1" for an item that was kept
ItemProcessedCount(t) ==
    /\ pc[t] = "count_processed"
    /\ processed_count' = reg[t] + 1
    /\ pc' = [pc EXCEPT ![t] = "items_wait"]
    /\ UNCHANGED << reg, result, item_futures, image_futures, queue, cur,
                    item_data, mod_data, requests >>
    /\ UNCHANGED << InputVars, SanVars, file, data, failed_count, collected, main_pc >>

-----------------------------------------------------------------------------
(* process_mod: append, save_data, return *)

\* Every item future was taken and the inner executor is shut down:
\* self.data['mods'].append(mod_data)
ModAppend(t) ==
    /\ pc[t] = "items_wait"
    /\ \A i \in 1..Len(item_futures[t]) : item_futures[t][i].taken
    /\ data' = [data EXCEPT !.mods = Append(@, mod_data[t])]
    /\ pc' = [pc EXCEPT ![t] = "save_open"]
    /\ UNCHANGED << reg, result, item_futures, image_futures, queue, cur,
                    item_data, mod_data, requests >>
    /\ UNCHANGED << InputVars, SanVars, file, processed_count, failed_count,
                    collected, main_pc >>

\* save_data: open(self.json_file, 'w') truncates the file; when it raises,
\* save_data logs the error and process_mod still returns True.
SaveOpen(t) ==
    /\ pc[t] = "save_open"
    /\ \E opened \in BOOLEAN :
         IF opened
         THEN /\ file' = [state |-> "partial", mods |-> <<>>]
              /\ pc' = [pc EXCEPT ![t] = "save_dump"]
              /\ UNCHANGED result
         ELSE /\ pc' = [pc EXCEPT ![t] = "done"]
              /\ result' = [result EXCEPT ![t] = "True"]
              /\ UNCHANGED file
    /\ UNCHANGED << reg, item_futures, image_futures, queue, cur, item_data,
                    mod_data, requests >>
    /\ UNCHANGED << InputVars, SanVars, data, processed_count, failed_count,
                    collected, main_pc >>

\* save_data: json.dump writes the store as it is now and the file is
\* closed; when the write raises, the file stays cut short.  Either way
\* process_mod sleeps and returns True.
SaveDump(t) ==
    /\ pc[t] = "save_dump"
    /\ \E written \in BOOLEAN :
         file' = IF written
                 THEN [state |-> "complete", mods |-> data.mods]
                 ELSE [state |-> "partial", mods |-> <<>>]
    /\ pc' = [pc EXCEPT ![t] = "done"]
    /\ result' = [result EXCEPT ![t] = "True"]
    /\ UNCHANGED << reg, item_futures, image_futures, queue, cur, item_data,
                    mod_data, requests >>
    /\ UNCHANGED << InputVars, SanVars, data, processed_count, failed_count,
                    collected, main_pc >>

-----------------------------------------------------------------------------
(* main *)

\* as_completed(futures) yields a finished process_mod future; an exception
\* that future.result() raises is logged and counted.
MainCollect(t) ==
    /\ main_pc = "waiting"
    /\ pc[t] = "done"
    /\ t \notin collected
    /\ collected' = collected \cup {t}
    /\ failed_count' = IF result[t] = "raised" THEN failed_count + 1 ELSE failed_count
    /\ UNCHANGED << InputVars, SanVars, TaskVars, file, data, processed_count, main_pc >>

\* every future was taken: the outer executor shuts down, the totals are logged
MainSummary ==
    /\ main_pc = "waiting"
    /\ collected = Tasks
    /\ main_pc' = "summary"
    /\ UNCHANGED << InputVars, SanVars, TaskVars, file, data, processed_count,
                    failed_count, collected >>

-----------------------------------------------------------------------------
(* The inputs of a run *)

ModNames == {"A", "B"}

\* the title of the k-th page the search can return
ItemTitle(k) == <<"I", ":">> \o Digits(k)

PngTitle   == <<"a", ".", "p", "n", "g">>
UpperTitle == <<"a", ".", "P", "N", "G">>
JpgTitle   == <<"a", ".", "j", "p", "g">>
GifTitle   == <<"a", ".", "g", "i", "f">>
MidTitle   == <<"a", ".", "p", "n", "g", ".", "t">>
TextTitle  == <<"a", ".", "t">>

\* sequences over S of length at most n
SeqsUpTo(S, n) == UNION {[1..k -> S] : k \in 0..n}

\* what the search can answer: the first k pages, or hits without a 'title'
SearchAnswers(n) ==
    {[wellformed |-> TRUE, titles |-> [i \in 1..k |-> ItemTitle(i)]] : k \in 0..n}
    \cup {[wellformed |-> FALSE, titles |-> <<>>]}

Wikis(names, nItems, nImages, titles) ==
    [search : [names -> SearchAnswers(nItems)],
     images : [{ItemTitle(k) : k \in 1..nItems} -> SeqsUpTo(titles, nImages)]]

ModRecord(name) == [mod_name |-> name, items |-> <<>>]

\* mod_items_data.json before the run: missing, not JSON, JSON of another
\* shape, or a store written by earlier runs
StartFiles ==
    { [state |-> "absent",   mods |-> <<>>],
      [state |-> "partial",  mods |-> <<>>],
      [state |-> "other",    mods |-> <<>>],
      [state |-> "complete", mods |-> <<>>],
      [state |-> "complete", mods |-> <<ModRecord("A")>>],
      [state |-> "complete", mods |-> <<ModRecord("B"), ModRecord("A")>>] }

\* load_existing_data: the parsed file, or an empty store when the file is
\* missing or json.load raised
load_existing_data(f) ==
    CASE f.state = "complete" -> [shape |-> "store", mods |-> f.mods]
      [] f.state = "other"    -> [shape |-> "other", mods |-> <<>>]
      [] OTHER                -> [shape |-> "store", mods |-> <<>>]

\* The state after ModItemsFetcher() is built and main has submitted one
\* process_mod per mod of the worklist.
InitWith(worklists, poolSizes, flags, seeds, wikis, files) ==
    /\ mods \in worklists
    /\ workers \in poolSizes
    /\ download_images \in flags
    /\ hash_seed \in seeds
    /\ wiki \in wikis
    /\ file0 \in files
    /\ file = file0
    /\ data = load_existing_data(file0)
    /\ processed_count = 0
    /\ failed_count = 0
    /\ pc = [t \in 1..Len(mods) |-> "queued"]
    /\ reg = [t \in 1..Len(mods) |-> 0]
    /\ result = [t \in 1..Len(mods) |-> "pending"]
    /\ item_futures = [t \in 1..Len(mods) |-> <<>>]
    /\ image_futures = [t \in 1..Len(mods) |-> <<>>]
    /\ queue = [t \in 1..Len(mods) |-> <<>>]
    /\ cur = [t \in 1..Len(mods) |-> 0]
    /\ item_data = [t \in 1..Len(mods) |-> [images |-> <<>>]]
    /\ mod_data = [t \in 1..Len(mods) |-> [mod_name |-> mods[t], items |-> <<>>]]
    /\ requests = [t \in 1..Len(mods) |-> NoRequests]
    /\ collected = {}
    /\ main_pc = "waiting"

\* runs of up to MaxMods mods, with a worker for each or fewer
Init ==
    /\ InitWith(UNION {[1..n -> ModNames] : n \in 1..MaxMods}, 1..MaxMods, BOOLEAN, {0},
                Wikis(ModNames, MaxItems, MaxImages, {PngTitle}), StartFiles)
    /\ filename = <<>>
    /\ safe_name = <<>>

Next ==
    \/ \E t \in Tasks : Start(t)
    \/ \E t \in Tasks : SearchReturn(t)
    \/ \E t \in Tasks : NoItemsReturn(t)
    \/ \E t \in Tasks : ExceptReturn(t)
    \/ \E t \in Tasks : WorkerStart(t)
    \/ \E t \in Tasks : \E i \in 1..Len(item_futures[t]) : ItemDetailsReturn(t, i)
    \/ \E t \in Tasks : \E j \in 1..Len(image_futures[t]) : ProcessImageReturn(t, j)
    \/ \E t \in Tasks : \E i \in 1..Len(item_futures[t]) : ItemConsume(t, i)
    \/ \E t \in Tasks : ItemFailedCount(t)
    \/ \E t \in Tasks : \E j \in 1..Len(image_futures[t]) : ImageConsume(t, j)
    \/ \E t \in Tasks : ItemFinish(t)
    \/ \E t \in Tasks : ItemProcessedCount(t)
    \/ \E t \in Tasks : ModAppend(t)
    \/ \E t \in Tasks : SaveOpen(t)
    \/ \E t \in Tasks : SaveDump(t)
    \/ \E t \in Tasks : MainCollect(t)
    \/ MainSummary

Spec == Init /\ [][Next]_vars

\* runs of a single mod with several items and images on the inner pool
InitItems ==
    /\ InitWith({<<"A">>}, {1}, BOOLEAN, {0},
             Wikis({"A"}, SoloItems, SoloImages, {PngTitle, TextTitle}),
             {[state |-> "absent", mods |-> <<>>]})
    /\ filename = <<>>
    /\ safe_name = <<>>

SpecItems == InitItems /\ [][Next]_vars

\* runs of a single mod with one item whose image titles vary
InitImages ==
    /\ InitWith({<<"A">>}, {1}, BOOLEAN, {0, 1},
             Wikis({"A"}, 1, MaxTitles,
                   {PngTitle, UpperTitle, JpgTitle, GifTitle, MidTitle, TextTitle}),
             {[state |-> "absent", mods |-> <<>>]})
    /\ filename = <<>>
    /\ safe_name = <<>>

SpecImages == InitImages /\ [][Next]_vars

\* a call of sanitize_filename
Sanitize ==
    /\ safe_name = <<>>
    /\ safe_name' = << sanitize_filename(filename) >>
    /\ UNCHANGED << InputVars, TaskVars, file, data, processed_count, failed_count,
                    collected, main_pc, filename >>

\* pat repeated up to length n
Repeat(pat, n) == [i \in 1..n |-> pat[((i - 1) % Len(pat)) + 1]]

SanAlphabet == {invalid_chars[k] : k \in 1..Len(invalid_chars)} \cup {"a", "_"}

\* the arguments of sanitize_filename: short patterns, and one with every
\* invalid character, repeated to short lengths and to lengths around the cut
SanInputs ==
    {Repeat(pat, n) :
        pat \in UNION {[1..k -> SanAlphabet] : k \in 1..MaxPatLen}
                \cup {invalid_chars \o <<"a">>},
        n \in 0..3 \cup (FilenameLimit - 1)..(FilenameLimit + MaxOver)}

InitSan ==
    /\ InitWith({<<"A">>}, {1}, {FALSE}, {0}, Wikis({"A"}, 0, 0, {}),
                {[state |-> "absent", mods |-> <<>>]})
    /\ filename \in SanInputs
    /\ safe_name = <<>>

SpecSan == InitSan /\ [][Sanitize]_vars

\* every thread that can run is scheduled again and every request returns
TaskStep(t) ==
    /\ t \in Tasks
    /\ \/ Start(t)
       \/ SearchReturn(t)
       \/ NoItemsReturn(t)
       \/ ExceptReturn(t)
       \/ WorkerStart(t)
       \/ \E i \in 1..Len(item_futures[t]) : ItemDetailsReturn(t, i)
       \/ \E j \in 1..Len(image_futures[t]) : ProcessImageReturn(t, j)
       \/ \E i \in 1..Len(item_futures[t]) : ItemConsume(t, i)
       \/ ItemFailedCount(t)
       \/ \E j \in 1..Len(image_futures[t]) : ImageConsume(t, j)
       \/ ItemFinish(t)
       \/ ItemProcessedCount(t)
       \/ ModAppend(t)
       \/ SaveOpen(t)
       \/ SaveDump(t)

MainStep == (\E t \in Tasks : MainCollect(t)) \/ MainSummary

Fairness == /\ \A t \in 1..MaxMods : WF_vars(TaskStep(t))
            /\ WF_vars(MainStep)

FairSpec == Spec /\ Fairness

\* runs of a single mod whose pages all reference qualifying images, with
\* fair scheduling of the mod thread and of the workers of the inner pool
InitPool ==
    /\ InitWith({<<"A">>}, {1}, {FALSE}, {0},
                Wikis({"A"}, SoloItems, SoloImages, {PngTitle}),
                {[state |-> "absent", mods |-> <<>>]})
    /\ filename = <<>>
    /\ safe_name = <<>>

FairSpecPool == InitPool /\ [][Next]_vars /\ Fairness

-----------------------------------------------------------------------------
(* C1 *)

UniqueNames(records) ==
    \A i, j \in 1..Len(records) :
        records[i].mod_name = records[j].mod_name => i = j

\* C1: mod names are unique in the store in every reachable state, in memory
\* and in every completely written file, also when one name is submitted
\* twice and both process_mod tasks run at once.
C1_UniqueModNames ==
    /\ UniqueNames(data.mods)
    /\ file.state = "complete" => UniqueNames(file.mods)

-----------------------------------------------------------------------------
(* C2 *)

\* the names of the mods the startup file holds
StartupNames ==
    IF file0.state = "complete"
    THEN {file0.mods[i].mod_name : i \in 1..Len(file0.mods)}
    ELSE {}

AllPresent == \A t \in Tasks : mods[t] \in StartupNames

\* the step in which a worker takes task t while the store holds its name
ShortCircuitStep(t) ==
    /\ pc[t] = "queued"
    /\ pc'[t] # "queued"
    /\ data.shape = "store"
    /\ \E i \in 1..Len(data.mods) : data.mods[i].mod_name = mods[t]

\* C2: when the store already holds the mod's name, process_mod returns True
\* in one step that leaves the store, the file, both counters and the request
\* counts as they were; and a run whose mods are all in the startup file
\* never changes the file, the store or the counters.
C2_AlreadyPresentNoop ==
    /\ [][\A t \in Tasks :
            ShortCircuitStep(t) =>
              /\ pc'[t] = "done"
              /\ result'[t] = "True"
              /\ UNCHANGED << data, file, processed_count, failed_count, requests >>]_vars
    /\ [](AllPresent =>
            /\ file = file0
            /\ data = load_existing_data(file0)
            /\ processed_count = 0
            /\ failed_count = 0
            /\ \A t \in Tasks : requests[t] = NoRequests)

\* a finished run over a worklist of two mods, both present at startup
C2_Witness ==
    /\ AllPresent
    /\ Len(mods) = 2
    /\ main_pc = "summary"
    /\ \A t \in Tasks : result[t] = "True"

-----------------------------------------------------------------------------
(* C3 *)

\* the search of task t can only come back empty
EmptySearch(t) ==
    /\ wiki.search[mods[t]].wellformed
    /\ wiki.search[mods[t]].titles = <<>>

\* the step in which process_mod returns after a search without hits
NoItemsStep(t) == pc[t] = "noitems" /\ pc'[t] # "noitems"

\* C3: after a search without hits process_mod returns False, the step
\* raises failed_count by exactly one, and the store, the file and the
\* request counts stay as they were (no record, no save_data, no retry).
C3_FailedCountPlusOne ==
    [][\A t \in Tasks :
         NoItemsStep(t) =>
           /\ pc'[t] = "done"
           /\ result'[t] = "False"
           /\ failed_count' = failed_count + 1
           /\ UNCHANGED << data, file, processed_count, requests >>]_vars

\* What holds of C3 under every interleaving: after a search without hits
\* process_mod issues no further request, returns False, leaves the store and
\* the file alone and runs "failed_count += 1" once; the counter becomes the
\* value the task loaded plus one, which is one more than before whenever one
\* mod runs at a time.
C3_NoItemsFails ==
    /\ [][\A t \in Tasks :
            (pc[t] = "search" /\ pc'[t] # "search" /\ EmptySearch(t)) =>
              /\ pc'[t] = "noitems"
              /\ UNCHANGED << data, file, processed_count, failed_count, requests >>]_vars
    /\ [][\A t \in Tasks :
            NoItemsStep(t) =>
              /\ pc'[t] = "done"
              /\ result'[t] = "False"
              /\ failed_count' = reg[t] + 1
              /\ (workers = 1 => failed_count' = failed_count + 1)
              /\ UNCHANGED << data, file, processed_count, requests >>]_vars
    /\ [](\A t \in Tasks :
            pc[t] = "noitems" =>
              /\ requests[t] = [NoRequests EXCEPT !.search = 1]
              /\ item_futures[t] = <<>>)

\* a mod whose search has no hits was returned as failed while another mod
\* was saved
C3_Witness ==
    \E t, u \in Tasks :
        /\ EmptySearch(t)
        /\ pc[t] = "done" /\ result[t] = "False"
        /\ requests[t] = [NoRequests EXCEPT !.search = 1]
        /\ failed_count >= 1
        /\ pc[u] = "done" /\ result[u] = "True" /\ requests[u].search = 1

-----------------------------------------------------------------------------
(* C6 *)

\* the names of the mods whose process_mod has returned True
FinishedNames == {mods[t] : t \in {u \in Tasks : result[u] = "True"}}

FileHolds(name) ==
    /\ file.state = "complete"
    /\ \E i \in 1..Len(file.mods) : file.mods[i].mod_name = name

\* C6: at every moment the file holds every mod it held at startup and every
\* mod whose process_mod has returned success.
C6_FileKeepsFinishedMods ==
    \A name \in StartupNames \cup FinishedNames : FileHolds(name)

-----------------------------------------------------------------------------
(* C7 *)

\* C7: whatever the requests, the parsing and the file writes do, no
\* process_mod ends by raising, every submitted mod runs to its end with True
\* or False, and main reaches its summary.
C7_NoFaultPropagates ==
    /\ [](\A t \in Tasks : result[t] \in {"pending", "True", "False"})
    /\ [](\A t \in Tasks : pc[t] = "done" => result[t] \in {"True", "False"})
    /\ <>(main_pc = "summary" /\ \A t \in Tasks : pc[t] = "done")

\* the summary is reached after one mod failed in the exception handler and
\* another was appended although its file write failed
C7_Witness ==
    /\ main_pc = "summary"
    /\ file.state = "partial"
    /\ file0.state = "complete"
    /\ \E t, u \in Tasks :
         /\ result[t] = "False" /\ ~wiki.search[mods[t]].wellformed
         /\ result[u] = "True" /\ requests[u].search = 1

-----------------------------------------------------------------------------
(* C4 *)

\* every item record of the list has an image, and every image a URL
ItemsHaveImages(items) ==
    \A k \in 1..Len(items) :
        /\ items[k].images # <<>>
        /\ \A n \in 1..Len(items[k].images) : items[k].images[n].url # <<>>

\* the mod records process_mod has built or appended in this run
BuiltRecords ==
    {mod_data[t] : t \in Tasks}
    \cup {data.mods[i] : i \in (Len(load_existing_data(file0).mods) + 1)..Len(data.mods)}
    \cup (IF file.state = "complete"
          THEN {file.mods[i] : i \in (Len(load_existing_data(file0).mods) + 1)..Len(file.mods)}
          ELSE {})

\* the step in which the mod thread is done with the image futures of an item
ItemFinishStep(t) == pc[t] = "images_wait" /\ pc'[t] # "images_wait"

\* C4: every item record process_mod puts into a mod record has an image
\* with a URL; an item joins the mod's list exactly when one of its image
\* futures returned a record, and an item without details never does.
C4_ItemsHaveImages ==
    /\ [](\A r \in BuiltRecords : ItemsHaveImages(r.items))
    /\ [][\A t \in Tasks :
            ItemFinishStep(t) =>
              IF \E j \in 1..Len(image_futures[t]) : image_futures[t][j].result # <<>>
              THEN /\ Len(mod_data'[t].items) = Len(mod_data[t].items) + 1
                   /\ mod_data'[t].items[Len(mod_data'[t].items)].images # <<>>
              ELSE mod_data'[t] = mod_data[t]]_vars
    /\ [][\A t \in Tasks :
            (pc[t] = "items_wait" /\ pc'[t] = "count_failed") =>
              mod_data'[t] = mod_data[t]]_vars

\* a saved mod of two pages, both with details and a qualifying image, of
\* which only one page made it into the record
C4_Witness ==
    \E t \in Tasks :
        /\ result[t] = "True"
        /\ file.state = "complete"
        /\ Len(item_futures[t]) = 2
        /\ \A i \in 1..2 :
             /\ item_futures[t][i].result # <<>>
             /\ FilterImages(item_futures[t][i].result[1].images) # <<>>
        /\ Len(file.mods) = 1
        /\ Len(file.mods[1].items) = 1

-----------------------------------------------------------------------------
(* C5 *)

\* the image records held anywhere: in finished image futures, in the item
\* and the mod being built, in the store
ImageRecordsOf(items) ==
    UNION {{items[k].images[n] : n \in 1..Len(items[k].images)} : k \in 1..Len(items)}

StoredImageRecords ==
    UNION {ImageRecordsOf(r.items) : r \in BuiltRecords}
    \cup UNION {{item_data[t].images[n] : n \in 1..Len(item_data[t].images)} : t \in Tasks}

\* C5: an image record's localPath is non-empty exactly when downloading was
\* requested and the download of that image succeeded; without downloading
\* every localPath is empty, and a failed download leaves the record with
\* its URL and an empty localPath.
C5_LocalPathIffDownloaded ==
    /\ \A t \in Tasks : \A j \in 1..Len(image_futures[t]) :
         LET f == image_futures[t][j] IN
         (f.state = "done" /\ f.result # <<>>) =>
            /\ (f.result[1].localPath # <<>>) <=> (download_images /\ f.download = "ok")
            /\ f.result[1].url # <<>>
    /\ \A t \in Tasks : \A j \in 1..Len(image_futures[t]) :
         (image_futures[t][j].download = "failed") =>
            /\ image_futures[t][j].result # <<>>
            /\ image_futures[t][j].result[1].localPath = <<>>
    /\ \A r \in StoredImageRecords :
         /\ r.localPath # <<>> => download_images
         /\ r.url # <<>>

\* with downloading on, a saved mod holds one image whose download failed
\* and one whose download succeeded
C5_Witness ==
    /\ download_images
    /\ file.state = "complete"
    /\ \E r1, r2 \in UNION {ImageRecordsOf(file.mods[i].items) : i \in 1..Len(file.mods)} :
         /\ r1.localPath = <<>> /\ r1.url # <<>>
         /\ r2.localPath # <<>>

-----------------------------------------------------------------------------
(* C9 *)

\* the title ends in .png, .jpg or .gif, whatever the case of its letters
EndsInRasterExt(image_title) ==
    \E ext \in RasterExts : EndsWith(lower(image_title), ext)

\* C9: the image futures of an item are exactly its image titles that end in
\* .png, .jpg or .gif (case-insensitively), in order.
C9_SubmittedIffEndsInExt ==
    \A t \in Tasks :
        pc[t] = "images_wait" =>
            [j \in 1..Len(image_futures[t]) |-> image_futures[t][j].title]
              = SelectSeq(item_futures[t][cur[t]].result[1].images, EndsInRasterExt)

-----------------------------------------------------------------------------
(* C10 *)

\* a step of the inner pool of task t
PoolStep(t) ==
    \/ WorkerStart(t)
    \/ \E i \in 1..Len(item_futures[t]) : ItemDetailsReturn(t, i)
    \/ \E j \in 1..Len(image_futures[t]) : ProcessImageReturn(t, j)

\* every worker of the inner pool of t is busy and tasks wait behind them
Saturated(t) == Running(t) >= MAX_WORKERS /\ queue[t] # <<>>

\* the mod thread has an unfinished future to wait for
Waiting(t) ==
    \/ /\ pc[t] = "items_wait"
       /\ \E i \in 1..Len(item_futures[t]) : item_futures[t][i].state # "done"
    \/ /\ pc[t] = "images_wait"
       /\ \E j \in 1..Len(image_futures[t]) : image_futures[t][j].state # "done"

\* task t exists and its thread stands at the given place of process_mod
At(t, place) == t \in Tasks /\ pc[t] = place

-----------------------------------------------------------------------------
(* C8 *)

UnsafeChars == {"<", ">", ":", "\"", "/", "\\", "|", "?", "*"}

\* C8: the name sanitize_filename returns is the first 255 characters of its
\* argument with every one of < > : " / \ | ? * replaced by an underscore and
\* every other character kept in place: it holds none of the nine characters
\* and is at most 255 characters long.
C8_SanitizedName ==
    safe_name # <<>> =>
        LET out == safe_name[1] IN
        /\ \A i \in 1..Len(out) : out[i] \notin UnsafeChars
        /\ Len(out) <= 255
        /\ Len(out) = IF Len(filename) < 255 THEN Len(filename) ELSE 255
        /\ \A i \in 1..Len(out) :
             out[i] = IF filename[i] \in UnsafeChars THEN "_" ELSE filename[i]

\* a name longer than 255 characters that holds every one of the nine
\* characters was sanitized and cut
C8_Witness ==
    /\ safe_name # <<>>
    /\ Len(filename) > 255
    /\ \A c \in UnsafeChars : \E i \in 1..Len(filename) : filename[i] = c
    /\ Len(safe_name[1]) = 255

=============================================================================
